---- MODULE Spec2Model ----
(***************************************************************************)
(* Model of two components of the repository:                              *)
(*   - BackgroundSyncQueueStore (packages/sync/src/store.ts), the ordered  *)
(*     queue facade over the shared BackgroundSyncQueueDb object store;    *)
(*   - NetworkFirst (packages/sw/src/cache/NetworkFirst.ts), the network   *)
(*     first fetch strategy with timeout race and cache fallback.          *)
(* Optional values (undefined / a value) are <<>> / <<v>>.                 *)
(***************************************************************************)
EXTENDS Integers, Sequences, FiniteSets, Bags, TLC

VARIABLES
    entries,      \* the object store: set of [id, queueName, payload]
    nextId,       \* the store's auto-increment key generator
    last,         \* the facade call that ran last and how it settled
    prevEntries,  \* the object store as it was before that call
    pushLog,      \* per queue: the entries pushEntry stored, still stored, in call order
    prevLog,      \* pushLog as it was before that call
    pushOnly      \* per queue: no unshiftEntry has run on that queue name

qvars == <<entries, nextId, last, prevEntries, pushLog, prevLog, pushOnly>>

VARIABLES
    cacheableResponse,     \* NetworkFirst.cacheableResponse: the policy, or false
    networkTimeoutSeconds, \* NetworkFirst.networkTimeoutSeconds
    pc,            \* where the handleRequest call in progress is suspended
    request,       \* the request of that call
    fetchState,    \* the promise of fetch(request): pending, resolved or rejected
    timer,         \* the setTimeout of fetchWithTimeout: off, armed or fired
    won,           \* what settled the race: network, failure, timeout or nothing yet
    netRes,        \* the response the fetch resolved with, if it has
    caught,        \* the error the catch block of handleRequest received, if any
    outcome,       \* how the call settled: a response or an error, if it has
    cache,         \* the named cache: per request the stored response, if any
    puts,          \* cache.put calls issued and not yet settled
    writes,        \* cache.put calls issued by the call in progress
    lookups,       \* times the call in progress entered its cache fallback
    storageFault,  \* the cache operation of the call in progress that failed
    cacheAtSettle, \* what the cache held for the request when the call settled
    clock,         \* Date.now()
    calls,         \* handleRequest calls started so far
    stamping       \* when putInCache of the call began, and the copy it gave cache.put

nfvars == <<cacheableResponse, networkTimeoutSeconds, pc, request, fetchState, timer,
            won, netRes, caught, outcome, cache, puts, writes, lookups, storageFault,
            cacheAtSettle, clock, calls, stamping>>

VARIABLES
    proc,        \* per concurrent caller: the facade call it is in and what it read
    started,     \* facade calls started by the concurrent callers
    inserted,    \* bag of the entries the concurrent callers stored
    delivered,   \* bag of the entries popEntry / shiftEntry returned to them
    removedBy    \* bag of the returned entries that were still stored at their delete

cvars == <<proc, started, inserted, delivered, removedBy>>

vars == <<qvars, nfvars, cvars>>

\* ---------------------------------------------------------------- bounds
MaxId == 3          \* the key generator stops issuing ids above this
MaxBelow == 1       \* head insertion stops this far below zero
MinId == 0 - MaxBelow
MaxEntries == 3     \* most entries kept in the object store at once
MaxCalls == 2       \* handleRequest calls followed, one after the other
ClockStart == 9     \* Date.now() at the start
MaxClock == 10      \* Date.now() stops advancing here
MaxStarted == 3      \* facade calls the concurrent callers start

\* ------------------------------------------------------------ value sets
QueueNames == {"X", "Y"}
Payloads == {"a", "b"}
None == <<>>
Some(v) == <<v>>

\* What a caller may hand to pushEntry / unshiftEntry: the payload, plus an
\* id and a queueName the caller may have left on the object.
SuppliedIds == {None, Some(0)}
SuppliedNames == {None, Some("Y")}
CallerEntries == [payload : Payloads, id : SuppliedIds, queueName : SuppliedNames]

\* Which store operation of a facade call is made to fail with StorageError.
Faults == {"none", "read", "write"}

\* ------------------------------------------------- BackgroundSyncQueueDb
IdsOf(S) == {e.id : e \in S}
MinOf(S) == CHOOSE m \in S : \A x \in S : m <= x
MaxOf(S) == CHOOSE m \in S : \A x \in S : m >= x
InQueue(S, name) == {e \in S : e.queueName = name}

RECURSIVE SortById(_)
SortById(S) ==
    IF S = {} THEN <<>>
    ELSE LET m == CHOOSE e \in S : \A o \in S : e.id <= o.id
         IN <<m>> \o SortById(S \ {m})

\* the smallest id stored in any queue, or undefined
getFirstEntryId(S) == IF S = {} THEN None ELSE Some(MinOf(IdsOf(S)))

getFirstEntryByQueueName(S, name) ==
    LET Q == InQueue(S, name)
    IN IF Q = {} THEN None ELSE Some(CHOOSE e \in Q : e.id = MinOf(IdsOf(Q)))

getLastEntryByQueueName(S, name) ==
    LET Q == InQueue(S, name)
    IN IF Q = {} THEN None ELSE Some(CHOOSE e \in Q : e.id = MaxOf(IdsOf(Q)))

getAllEntriesByQueueName(S, name) == SortById(InQueue(S, name))

getEntryCountByQueueName(S, name) == Cardinality(InQueue(S, name))

\* addEntry: the id is taken verbatim when set, else the generator issues it.
addEntryId(e, gen) == IF e.id = None THEN gen ELSE e.id[1]
addEntryCollides(S, e, gen) == addEntryId(e, gen) \in IdsOf(S)
addEntryStore(S, e, gen) ==
    S \cup {[id |-> addEntryId(e, gen), queueName |-> e.queueName[1], payload |-> e.payload]}
addEntryGen(e, gen) ==
    IF e.id = None \/ e.id[1] >= gen THEN addEntryId(e, gen) + 1 ELSE gen

dbDeleteEntry(S, id) == {e \in S : e.id /= id}

\* ---------------------------------------------- BackgroundSyncQueueStore
\* JavaScript truthiness of an optional number: undefined and 0 are falsy.
Truthy(v) == v /= None /\ v[1] /= 0

getAll(S, name) == getAllEntriesByQueueName(S, name)
size(S, name) == getEntryCountByQueueName(S, name)

\* pushEntry that leaves the caller's id and queueName on the object.
pushEntryObjectKept(name, e) ==
    [e EXCEPT !.queueName = IF e.queueName = None THEN Some(name) ELSE e.queueName]

\* pushEntry, lines 43-44: the object handed to addEntry.
pushEntryObject(name, e) == [e EXCEPT !.id = None, !.queueName = Some(name)]

\* unshiftEntry that leaves the caller's queueName on the object.
unshiftEntryObjectKept(name, e, firstId) ==
    [e EXCEPT !.id = IF Truthy(firstId) THEN Some(firstId[1] - 1) ELSE None,
              !.queueName = IF e.queueName = None THEN Some(name) ELSE e.queueName]

\* unshiftEntry that reuses the smallest id instead of going one below it.
unshiftEntryObjectNoStep(name, e, firstId) ==
    IF Truthy(firstId)
    THEN [e EXCEPT !.id = Some(firstId[1]), !.queueName = Some(name)]
    ELSE [e EXCEPT !.id = None, !.queueName = Some(name)]

\* unshiftEntry, lines 57-64: the object handed to addEntry.
unshiftEntryObject(name, e, firstId) ==
    IF Truthy(firstId)
    THEN [e EXCEPT !.id = Some(firstId[1] - 1), !.queueName = Some(name)]
    ELSE [e EXCEPT !.id = None, !.queueName = Some(name)]

\* popEntry / shiftEntry reading the last / first entry of the whole store.
popEntryReadAny(S, name) ==
    IF S = {} THEN None ELSE Some(CHOOSE e \in S : e.id = MaxOf(IdsOf(S)))
shiftEntryReadAny(S, name) ==
    IF S = {} THEN None ELSE Some(CHOOSE e \in S : e.id = MinOf(IdsOf(S)))

\* popEntry reading the head of the queue instead of its tail.
popEntryReadFirst(S, name) == getFirstEntryByQueueName(S, name)

\* popEntry / shiftEntry: the entry read before _removeEntry.
popEntryRead(S, name) == getLastEntryByQueueName(S, name)
shiftEntryRead(S, name) == getFirstEntryByQueueName(S, name)

\* _removeEntry that hands the entry back without deleting it.
_removeEntryNoDelete(S, entry) == S

\* _removeEntry: the store after the delete it issues for a found entry.
_removeEntry(S, entry) == IF entry /= None THEN dbDeleteEntry(S, entry[1].id) ELSE S

\* Book-keeping shared by the facade calls: what ran, how it settled, and the
\* push order of the entries that are still stored.
Settle(op, name, fault, how, ret, arg, S) ==
    /\ last' = [op |-> op, q |-> name, fault |-> fault, outcome |-> how,
                ret |-> ret, arg |-> arg, id |-> 0]
    /\ prevEntries' = entries
    /\ prevLog' = pushLog
    /\ UNCHANGED <<nfvars, cvars>>
    /\ entries' = S

LogAfter(S, log) == [n \in QueueNames |-> SelectSeq(log[n], LAMBDA x : x \in S)]

Added(S, obj, gen) == CHOOSE x \in addEntryStore(S, obj, gen) : x \notin S

\* One addEntry call of a facade insertion: fails on a storage fault or on an
\* id that is already stored, else stores the object.
Insert(op, name, e, obj, fault) ==
    IF fault = "write" \/ addEntryCollides(entries, obj, nextId)
    THEN /\ Settle(op, name, fault, "StorageError", None, e.payload, entries)
         /\ UNCHANGED <<nextId, pushLog>>
    ELSE /\ Settle(op, name, fault, "ok", None, e.payload, addEntryStore(entries, obj, nextId))
         /\ nextId' = addEntryGen(obj, nextId)
         /\ pushLog' = IF op = "pushEntry"
                       THEN [pushLog EXCEPT ![name] = Append(@, Added(entries, obj, nextId))]
                       ELSE pushLog

CanInsert(obj) ==
    /\ Cardinality(entries) < MaxEntries
    /\ addEntryId(obj, nextId) <= MaxId
    /\ addEntryId(obj, nextId) >= MinId

pushEntry(name, e, fault) ==
    LET obj == pushEntryObject(name, e)
    IN /\ fault \in {"none", "write"}
       /\ CanInsert(obj)
       /\ Insert("pushEntry", name, e, obj, fault)
       /\ UNCHANGED pushOnly

unshiftEntry(name, e, fault) ==
    IF fault = "read"
    THEN /\ Settle("unshiftEntry", name, fault, "StorageError", None, e.payload, entries)
         /\ UNCHANGED <<nextId, pushLog, pushOnly>>
    ELSE LET obj == unshiftEntryObject(name, e, getFirstEntryId(entries))
         IN /\ CanInsert(obj)
            /\ Insert("unshiftEntry", name, e, obj, fault)
            /\ pushOnly' = IF fault = "none" /\ ~addEntryCollides(entries, obj, nextId)
                           THEN [pushOnly EXCEPT ![name] = FALSE]
                           ELSE pushOnly

\* A removal that does not wait for its delete: the entry is handed back
\* while a failed delete leaves it stored.
RemoveUnawaited(op, name, entry, fault) ==
    /\ IF fault = "read"
       THEN Settle(op, name, fault, "StorageError", None, "", entries)
       ELSE Settle(op, name, fault, "ok", entry, "",
                   IF fault = "write" THEN entries ELSE _removeEntry(entries, entry))
    /\ pushLog' = LogAfter(entries', pushLog)
    /\ UNCHANGED <<nextId, pushOnly>>

\* popEntry and shiftEntry: read one end of the queue, then _removeEntry.
Remove(op, name, entry, fault) ==
    /\ IF fault = "read" \/ (fault = "write" /\ entry /= None)
       THEN Settle(op, name, fault, "StorageError", None, "", entries)
       ELSE Settle(op, name, fault, "ok", entry, "", _removeEntry(entries, entry))
    /\ pushLog' = LogAfter(entries', pushLog)
    /\ UNCHANGED <<nextId, pushOnly>>

popEntry(name, fault) == Remove("popEntry", name, popEntryRead(entries, name), fault)

shiftEntry(name, fault) == Remove("shiftEntry", name, shiftEntryRead(entries, name), fault)

\* A call of deleteEntry settles: like Settle, and the id is kept.
SettleDelete(name, id, fault, how, S) ==
    /\ last' = [op |-> "deleteEntry", q |-> name, fault |-> fault, outcome |-> how,
                ret |-> None, arg |-> "", id |-> id]
    /\ prevEntries' = entries
    /\ prevLog' = pushLog
    /\ UNCHANGED <<nfvars, cvars>>
    /\ entries' = S

\* deleteEntry that first checks that the entry belongs to its own queue.
deleteEntryOwnQueue(name, id, fault) ==
    /\ fault \in {"none", "write"}
    /\ IF fault = "write"
       THEN SettleDelete(name, id, fault, "StorageError", entries)
       ELSE SettleDelete(name, id, fault, "ok",
                         {e \in entries : e.id /= id \/ e.queueName /= name})
    /\ pushLog' = LogAfter(entries', pushLog)
    /\ UNCHANGED <<nextId, pushOnly>>

deleteEntry(name, id, fault) ==
    /\ fault \in {"none", "write"}
    /\ IF fault = "write"
       THEN SettleDelete(name, id, fault, "StorageError", entries)
       ELSE SettleDelete(name, id, fault, "ok", dbDeleteEntry(entries, id))
    /\ pushLog' = LogAfter(entries', pushLog)
    /\ UNCHANGED <<nextId, pushOnly>>

\* ----------------------------------------------------------- NetworkFirst
Requests == {"r1", "r2"}
HeaderKind == "x-kind"
CACHE_TIMESTAMP_HEADER == "sw-cache-timestamp"
HeaderNames == {HeaderKind, CACHE_TIMESTAMP_HEADER}
Infinity == "Infinity"
DefaultTimeout == "10"

\* Header values are strings, written as sequences of characters.
Digits == <<"0", "1", "2", "3", "4", "5", "6", "7", "8", "9">>

RECURSIVE NumberToString(_)
NumberToString(n) ==
    IF n < 10 THEN <<Digits[n + 1]>>
    ELSE NumberToString(n \div 10) \o <<Digits[(n % 10) + 1]>>

\* Headers keep, per name, the list of appended values; get() joins them.
RECURSIVE JoinValues(_)
JoinValues(list) ==
    IF Len(list) = 1 THEN list[1]
    ELSE list[1] \o <<",", " ">> \o JoinValues(Tail(list))

HeadersGet(h, name) == IF h[name] = <<>> THEN None ELSE Some(JoinValues(h[name]))
HeadersAppend(h, name, value) == [h EXCEPT ![name] = Append(@, value)]

\* The response to a no-cors request: status 0, no headers, no body.
OpaqueResponse == [status |-> 0, body |-> "null", headers |-> [n \in HeaderNames |-> <<>>]]

\* A response that arrives with the timestamp header already on it.
StampedResponse ==
    [status |-> 200, body |-> "body",
     headers |-> [n \in HeaderNames |->
                     IF n = CACHE_TIMESTAMP_HEADER THEN << NumberToString(5) >> ELSE <<>>]]

\* The responses the network may answer with.
NetResponses ==
    {[status |-> st, body |-> "body",
      headers |-> [n \in HeaderNames |-> IF n = HeaderKind THEN k ELSE <<>>]] :
        st \in {200, 500}, k \in {<<>>, << <<"y">> >>, << <<"n">> >>}}
    \cup {OpaqueResponse, StampedResponse}

\* The cacheableResponse option: false, or allow-lists of statuses and headers.
Policies ==
    {None} \cup
    {Some([statuses |-> st, headers |-> hd]) :
        st \in {{}, {200}}, hd \in {{}, {<<HeaderKind, <<"y">> >>}}}

TimeoutError == "Network timed out after 10 seconds"
FetchError == "TypeError: Failed to fetch"
FallbackError == "No response received from fetch: Timeout"
StorageError == "StorageError"
RangeError == "RangeError"

Pending == [kind |-> "pending", response |-> None, error |-> ""]
Returned(res) == [kind |-> "response", response |-> Some(res), error |-> ""]
Thrown(err) == [kind |-> "error", response |-> None, error |-> err]

\* validateResponse that lets every status through.
validateResponseAnyStatus(policy, response) ==
    IF policy = None THEN TRUE
    ELSE \A kv \in policy[1].headers : HeadersGet(response.headers, kv[1]) = Some(kv[2])

validateResponse(policy, response) ==
    IF policy = None THEN TRUE
    ELSE LET headers == policy[1].headers
             statuses == policy[1].statuses
             isStatusValid == IF statuses /= {} THEN response.status \in statuses ELSE TRUE
             isHeaderValid ==
                 IF headers /= {}
                 THEN \A kv \in headers : HeadersGet(response.headers, kv[1]) = Some(kv[2])
                 ELSE TRUE
         IN isStatusValid /\ isHeaderValid

\* new Response(body, {status}) throws a RangeError outside 200..599.
ResponseInitThrows(response) == response.status \notin 200..599

addTimestampHeader(response, now) ==
    [response EXCEPT !.headers = HeadersAppend(@, CACHE_TIMESTAMP_HEADER, NumberToString(now))]

\* The catch block that rethrows what it caught on a cache miss.
catchResultRethrow(response, error) ==
    IF response /= None THEN Returned(response[1]) ELSE Thrown(error[1])

\* The catch block that never serves the cached response.
catchResultNoServe(response, error) == Thrown(FallbackError)

\* handleRequest, lines 33-35: the end of the catch block.
catchResult(response, error) ==
    IF response /= None THEN Returned(response[1]) ELSE Thrown(FallbackError)

Finish(o) ==
    /\ pc' = "done"
    /\ outcome' = o
    /\ cacheAtSettle' = cache[request]

\* Entering the catch block of handleRequest: openCache() is called.
EnterCatch(error) ==
    /\ caught' = Some(error)
    /\ pc' = "catchOpen"
    /\ lookups' = lookups + 1
    /\ UNCHANGED <<outcome, cacheAtSettle>>

StrategyStart(policy, timeout) ==
    /\ cacheableResponse = policy
    /\ networkTimeoutSeconds = timeout
    /\ pc = "idle"
    /\ request = "r1"
    /\ fetchState = "none"
    /\ timer = "off"
    /\ won = "none"
    /\ netRes = None
    /\ caught = None
    /\ outcome = Pending
    /\ cache = [r \in Requests |-> None]
    /\ puts = {}
    /\ writes = 0
    /\ lookups = 0
    /\ storageFault = "none"
    /\ cacheAtSettle = None
    /\ clock = ClockStart
    /\ calls = 0
    /\ stamping = [began |-> ClockStart, written |-> None]

\* fetchWithTimeout that never starts the timer.
startTimerNever(timeoutSeconds) == "off"

\* fetchWithTimeout, lines 92-100: the timer is started for a finite timeout.
startTimer(timeoutSeconds) == IF timeoutSeconds /= Infinity THEN "armed" ELSE "off"

\* handleRequest up to its first suspension, with fetchWithTimeout: the fetch
\* is issued and, for a finite timeout, the timer is started.
handleRequest(req) ==
    /\ pc \in {"idle", "done"}
    /\ calls < MaxCalls
    /\ fetchState /= "pending" /\ timer /= "armed"
    /\ request' = req
    /\ pc' = "race"
    /\ fetchState' = "pending"
    /\ timer' = startTimer(networkTimeoutSeconds)
    /\ won' = "none" /\ netRes' = None /\ caught' = None /\ outcome' = Pending
    /\ writes' = 0 /\ lookups' = 0 /\ storageFault' = "none" /\ cacheAtSettle' = None
    /\ calls' = calls + 1
    /\ stamping' = [began |-> clock, written |-> None]
    /\ UNCHANGED <<cacheableResponse, networkTimeoutSeconds, cache, puts, clock>>
    /\ UNCHANGED <<qvars, cvars>>

\* The fetch resolves. If the race is still open the try block goes on:
\* validateResponse, then putInCache up to its openCache().
FetchResolves(res) ==
    /\ fetchState = "pending"
    /\ fetchState' = "resolved"
    /\ netRes' = Some(res)
    /\ IF pc = "race"
       THEN /\ won' = "network"
            /\ IF validateResponse(cacheableResponse, res)
               THEN /\ pc' = "putOpen"
                    /\ stamping' = [began |-> clock, written |-> None]
                    /\ UNCHANGED <<outcome, cacheAtSettle>>
               ELSE Finish(Returned(res)) /\ UNCHANGED stamping
       ELSE UNCHANGED <<won, pc, outcome, cacheAtSettle, stamping>>
    /\ UNCHANGED <<cacheableResponse, networkTimeoutSeconds, request, timer, caught, cache,
                   puts, writes, lookups, storageFault, clock, calls>>
    /\ UNCHANGED <<qvars, cvars>>

\* The fetch rejects. If the race is still open the catch block is entered.
FetchRejects ==
    /\ fetchState = "pending"
    /\ fetchState' = "rejected"
    /\ IF pc = "race"
       THEN won' = "failure" /\ EnterCatch(FetchError)
       ELSE UNCHANGED <<won, caught, pc, lookups, outcome, cacheAtSettle>>
    /\ UNCHANGED <<cacheableResponse, networkTimeoutSeconds, request, timer, netRes, cache,
                   puts, writes, storageFault, clock, calls, stamping>>
    /\ UNCHANGED <<qvars, cvars>>

\* The timer callback runs and rejects the timeout promise.
TimerFires ==
    /\ timer = "armed"
    /\ timer' = "fired"
    /\ IF pc = "race"
       THEN won' = "timeout" /\ EnterCatch(TimeoutError)
       ELSE UNCHANGED <<won, caught, pc, lookups, outcome, cacheAtSettle>>
    /\ UNCHANGED <<cacheableResponse, networkTimeoutSeconds, request, fetchState, netRes,
                   cache, puts, writes, storageFault, clock, calls, stamping>>
    /\ UNCHANGED <<qvars, cvars>>

\* putInCache: openCache() settles; on success the stamped copy is built and
\* handed to cache.put, which is not awaited, and handleRequest returns the
\* response. A failure to open or to build the copy lands in the catch block.
PutOpenSettles(ok) ==
    /\ pc = "putOpen"
    /\ IF ok /\ ~ResponseInitThrows(netRes[1])
       THEN /\ puts' = puts \cup {[request |-> request,
                                   response |-> addTimestampHeader(netRes[1], clock)]}
            /\ writes' = writes + 1
            /\ stamping' = [stamping EXCEPT
                              !.written = Some(addTimestampHeader(netRes[1], clock))]
            /\ Finish(Returned(netRes[1]))
            /\ UNCHANGED <<caught, lookups>>
       ELSE /\ EnterCatch(IF ok THEN RangeError ELSE StorageError)
            /\ UNCHANGED <<puts, writes, stamping>>
    /\ UNCHANGED <<cacheableResponse, networkTimeoutSeconds, request, fetchState, timer, won,
                   netRes, cache, storageFault, clock, calls>>
    /\ UNCHANGED <<qvars, cvars>>

\* The catch block: openCache() settles.
CatchOpenSettles(ok) ==
    /\ pc = "catchOpen"
    /\ IF ok
       THEN pc' = "match" /\ UNCHANGED <<outcome, cacheAtSettle, storageFault>>
       ELSE storageFault' = "open" /\ Finish(Thrown(StorageError))
    /\ UNCHANGED <<cacheableResponse, networkTimeoutSeconds, request, fetchState, timer, won,
                   netRes, caught, cache, puts, writes, lookups, clock, calls, stamping>>
    /\ UNCHANGED <<qvars, cvars>>

\* The catch block: cache.match(request) settles.
MatchSettles(ok) ==
    /\ pc = "match"
    /\ IF ok
       THEN Finish(catchResult(cache[request], caught)) /\ UNCHANGED storageFault
       ELSE storageFault' = "match" /\ Finish(Thrown(StorageError))
    /\ UNCHANGED <<cacheableResponse, networkTimeoutSeconds, request, fetchState, timer, won,
                   netRes, caught, cache, puts, writes, lookups, clock, calls, stamping>>
    /\ UNCHANGED <<qvars, cvars>>

\* A cache.put issued earlier settles: the record is stored, or the put fails
\* and its rejection goes unobserved.
PutSettles(p, ok) ==
    /\ p \in puts
    /\ puts' = puts \ {p}
    /\ cache' = IF ok THEN [cache EXCEPT ![p.request] = Some(p.response)] ELSE cache
    /\ UNCHANGED <<cacheableResponse, networkTimeoutSeconds, pc, request, fetchState, timer,
                   won, netRes, caught, outcome, writes, lookups, storageFault,
                   cacheAtSettle, clock, calls, stamping>>
    /\ UNCHANGED <<qvars, cvars>>

\* Time passes.
Tick ==
    /\ clock < MaxClock
    /\ clock' = clock + 1
    /\ UNCHANGED <<cacheableResponse, networkTimeoutSeconds, pc, request, fetchState, timer,
                   won, netRes, caught, outcome, cache, puts, writes, lookups, storageFault,
                   cacheAtSettle, calls, stamping>>
    /\ UNCHANGED <<qvars, cvars>>

QueueStart ==
    /\ entries = {}
    /\ nextId = 1
    /\ last = [op |-> "none", q |-> "X", fault |-> "none", outcome |-> "ok",
               ret |-> None, arg |-> "", id |-> 0]
    /\ prevEntries = {}
    /\ prevLog = [n \in QueueNames |-> <<>>]
    /\ pushLog = [n \in QueueNames |-> <<>>]
    /\ pushOnly = [n \in QueueNames |-> TRUE]

\* ------------------------------------ BackgroundSyncQueueStore, interleaved
\* Callers whose facade calls interleave at the awaits: every store operation
\* is one step, and a call of two operations is two steps.
Callers == {"c1", "c2"}

NoEntry == [payload |-> "a", id |-> None, queueName |-> None]

Ready(op, name, e, firstId, attempt, how, ret) ==
    [pc |-> "ready", op |-> op, q |-> name, entry |-> NoEntry, firstId |-> firstId,
     held |-> None, attempt |-> attempt, outcome |-> how, ret |-> ret]

ConcurrentStart ==
    /\ proc = [c \in Callers |-> Ready("none", "X", NoEntry, None, None, "ok", None)]
    /\ started = 0
    /\ inserted = EmptyBag
    /\ delivered = EmptyBag
    /\ removedBy = EmptyBag

Begin(c) ==
    /\ proc[c].pc = "ready"
    /\ started < MaxStarted
    /\ started' = started + 1

\* pushEntry: its one store operation.
cPushEntry(c, name, e) ==
    LET obj == pushEntryObject(name, e)
    IN /\ Begin(c)
       /\ CanInsert(obj)
       /\ ~addEntryCollides(entries, obj, nextId)
       /\ entries' = addEntryStore(entries, obj, nextId)
       /\ nextId' = addEntryGen(obj, nextId)
       /\ inserted' = inserted (+) SetToBag({Added(entries, obj, nextId)})
       /\ proc' = [proc EXCEPT ![c] = Ready("pushEntry", name, e, None,
                                            Some(addEntryId(obj, nextId)), "ok", None)]
       /\ UNCHANGED <<delivered, removedBy>>
       /\ UNCHANGED <<last, prevEntries, pushLog, prevLog, pushOnly, nfvars>>

\* unshiftEntry, line 55: the read of the smallest id.
cUnshiftRead(c, name, e) ==
    /\ Begin(c)
    /\ proc' = [proc EXCEPT ![c] =
                  [pc |-> "unshiftAdd", op |-> "unshiftEntry", q |-> name, entry |-> e,
                   firstId |-> getFirstEntryId(entries), held |-> None,
                   attempt |-> None, outcome |-> "", ret |-> None]]
    /\ UNCHANGED <<entries, nextId, inserted, delivered, removedBy>>
    /\ UNCHANGED <<last, prevEntries, pushLog, prevLog, pushOnly, nfvars>>

\* unshiftEntry, lines 57-66: the id is set from what was read and addEntry
\* is called; a stored id makes addEntry fail.
cUnshiftAdd(c) ==
    LET me == proc[c]
        obj == unshiftEntryObject(me.q, me.entry, me.firstId)
        id == addEntryId(obj, nextId)
    IN /\ me.pc = "unshiftAdd"
       /\ id <= MaxId /\ id >= MinId
       /\ IF addEntryCollides(entries, obj, nextId)
          THEN /\ proc' = [proc EXCEPT ![c] = Ready("unshiftEntry", me.q, me.entry,
                                                   me.firstId, Some(id), "StorageError", None)]
               /\ UNCHANGED <<entries, nextId, inserted>>
          ELSE /\ entries' = addEntryStore(entries, obj, nextId)
               /\ nextId' = addEntryGen(obj, nextId)
               /\ inserted' = inserted (+) SetToBag({Added(entries, obj, nextId)})
               /\ proc' = [proc EXCEPT ![c] = Ready("unshiftEntry", me.q, me.entry,
                                                   me.firstId, Some(id), "ok", None)]
       /\ UNCHANGED <<started, delivered, removedBy>>
       /\ UNCHANGED <<last, prevEntries, pushLog, prevLog, pushOnly, nfvars>>

\* popEntry / shiftEntry, lines 75 and 84: the read of the entry. Without an
\* entry _removeEntry issues no delete and the call returns.
cRemoveRead(c, op, name) ==
    LET entry == IF op = "popEntry" THEN popEntryRead(entries, name)
                 ELSE shiftEntryRead(entries, name)
    IN /\ Begin(c)
       /\ proc' = [proc EXCEPT ![c] =
                     IF entry = None
                     THEN Ready(op, name, NoEntry, None, None, "ok", None)
                     ELSE [pc |-> "delete", op |-> op, q |-> name, entry |-> NoEntry,
                           firstId |-> None, held |-> entry, attempt |-> None,
                           outcome |-> "", ret |-> None]]
       /\ UNCHANGED <<entries, nextId, inserted, delivered, removedBy>>
       /\ UNCHANGED <<last, prevEntries, pushLog, prevLog, pushOnly, nfvars>>

\* _removeEntry, lines 127-130: the delete of the entry read, which is then
\* returned. Deleting an id that is gone is a no-op of the store.
cRemoveDelete(c) ==
    LET me == proc[c]
    IN /\ me.pc = "delete"
       /\ entries' = _removeEntry(entries, me.held)
       /\ delivered' = delivered (+) SetToBag({me.held[1]})
       /\ removedBy' = IF me.held[1] \in entries
                       THEN removedBy (+) SetToBag({me.held[1]})
                       ELSE removedBy
       /\ proc' = [proc EXCEPT ![c] = Ready(me.op, me.q, NoEntry, None, None, "ok", me.held)]
       /\ UNCHANGED <<nextId, started, inserted>>
       /\ UNCHANGED <<last, prevEntries, pushLog, prevLog, pushOnly, nfvars>>

\* deleteEntry: its one store operation.
cDeleteEntry(c, name, id) ==
    /\ Begin(c)
    /\ entries' = dbDeleteEntry(entries, id)
    /\ proc' = [proc EXCEPT ![c] = Ready("deleteEntry", name, NoEntry, None, None, "ok", None)]
    /\ UNCHANGED <<nextId, inserted, delivered, removedBy>>
    /\ UNCHANGED <<last, prevEntries, pushLog, prevLog, pushOnly, nfvars>>

InitQueueInterleaved == QueueStart /\ StrategyStart(None, DefaultTimeout) /\ ConcurrentStart

NextQueueInterleaved ==
    \/ \E c \in Callers, n \in QueueNames, e \in CallerEntries : cPushEntry(c, n, e)
    \/ \E c \in Callers, n \in QueueNames, e \in CallerEntries : cUnshiftRead(c, n, e)
    \/ \E c \in Callers : cUnshiftAdd(c)
    \/ \E c \in Callers, op \in {"popEntry", "shiftEntry"}, n \in QueueNames :
          cRemoveRead(c, op, n)
    \/ \E c \in Callers : cRemoveDelete(c)
    \/ \E c \in Callers, n \in QueueNames, id \in MinId..MaxId : cDeleteEntry(c, n, id)

SpecQueueInterleaved == InitQueueInterleaved /\ [][NextQueueInterleaved]_vars

InitNetworkFirst ==
    /\ QueueStart
    /\ ConcurrentStart
    /\ \E policy \in Policies, timeout \in {DefaultTimeout, Infinity} :
          StrategyStart(policy, timeout)

NextNetworkFirst ==
    \/ \E req \in Requests : handleRequest(req)
    \/ \E res \in NetResponses : FetchResolves(res)
    \/ FetchRejects
    \/ TimerFires
    \/ \E ok \in BOOLEAN : PutOpenSettles(ok)
    \/ \E ok \in BOOLEAN : CatchOpenSettles(ok)
    \/ \E ok \in BOOLEAN : MatchSettles(ok)
    \/ \E p \in puts, ok \in BOOLEAN : PutSettles(p, ok)
    \/ Tick

SpecNetworkFirst == InitNetworkFirst /\ [][NextNetworkFirst]_vars

\* The timer callback and the cache operations run once they are due; the
\* network fetch need never settle.
FairNetworkFirst ==
    /\ WF_vars(TimerFires)
    /\ WF_vars(\E ok \in BOOLEAN : PutOpenSettles(ok))
    /\ WF_vars(\E ok \in BOOLEAN : CatchOpenSettles(ok))
    /\ WF_vars(\E ok \in BOOLEAN : MatchSettles(ok))

\* A strategy constructed with a finite networkTimeoutInSeconds (the default),
\* caching every response or only those with status 200.
InitNetworkFirstFinite ==
    /\ QueueStart
    /\ ConcurrentStart
    /\ \E policy \in {None, Some([statuses |-> {200}, headers |-> {}])} :
          StrategyStart(policy, DefaultTimeout)

SpecNetworkFirstFair ==
    InitNetworkFirstFinite /\ [][NextNetworkFirst]_vars /\ FairNetworkFirst

InitQueue == QueueStart /\ StrategyStart(None, DefaultTimeout) /\ ConcurrentStart

NextQueue ==
    \/ \E n \in QueueNames, e \in CallerEntries, f \in Faults : pushEntry(n, e, f)
    \/ \E n \in QueueNames, e \in CallerEntries, f \in Faults : unshiftEntry(n, e, f)
    \/ \E n \in QueueNames, f \in Faults : popEntry(n, f)
    \/ \E n \in QueueNames, f \in Faults : shiftEntry(n, f)
    \/ \E n \in QueueNames, id \in MinId..MaxId, f \in Faults : deleteEntry(n, id, f)

SpecQueue == InitQueue /\ [][NextQueue]_vars

\* ------------------------------------------------------------------------
\* Properties of the queue facade, checked under SpecQueue.
\* ------------------------------------------------------------------------
Ran(op) == last.op = op /\ last.outcome = "ok"
NewEntries == entries \ prevEntries
OtherNames(name) == QueueNames \ {name}

\* C1: after unshiftEntry(b) on queue Q, b is the first element of
\* Q.getAll() and the previous contents of Q.getAll() follow it in their
\* previous order, whatever the current global minimum id is.
HeadInsertion ==
    Ran("unshiftEntry") =>
        LET now == getAll(entries, last.q)
            before == getAll(prevEntries, last.q)
        IN /\ Len(now) = Len(before) + 1
           /\ Head(now).payload = last.arg
           /\ Tail(now) = before

\* C2: on a queue that only pushEntry has filled, shiftEntry returns the
\* entries in the order they were pushed: each call returns and removes the
\* earliest pushed entry still stored, and returns none on an empty queue.
QueueFIFO ==
    (Ran("shiftEntry") /\ pushOnly[last.q]) =>
        IF prevLog[last.q] = <<>>
        THEN last.ret = None /\ entries = prevEntries
        ELSE /\ last.ret = Some(Head(prevLog[last.q]))
             /\ pushLog[last.q] = Tail(prevLog[last.q])
             /\ entries = prevEntries \ {Head(prevLog[last.q])}
             /\ Head(prevLog[last.q]) \in prevEntries

\* After two pushes on X and a head insertion on Y, a second shift on X
\* returned the entry pushed second while Y still holds entries.
QueueFIFOWitness ==
    /\ Ran("shiftEntry") /\ last.q = "X" /\ pushOnly["X"] /\ ~pushOnly["Y"]
    /\ Len(prevLog["X"]) = 1
    /\ last.ret /= None /\ last.ret[1].id >= 2
    /\ InQueue(entries, "Y") /= {}

\* C3: popEntry returns and removes the entry of its queue with the
\* largest id; on a queue that only pushEntry has filled this is the most
\* recently pushed entry still stored, and a pushed entry lands at the tail.
QueueLIFO ==
    /\ Ran("popEntry") =>
          LET Q == InQueue(prevEntries, last.q)
          IN IF Q = {}
             THEN last.ret = None /\ entries = prevEntries
             ELSE /\ last.ret /= None
                  /\ last.ret[1] \in Q
                  /\ \A e \in Q : e.id <= last.ret[1].id
                  /\ entries = prevEntries \ {last.ret[1]}
    /\ (Ran("popEntry") /\ pushOnly[last.q] /\ prevLog[last.q] /= <<>>) =>
          /\ last.ret = Some(prevLog[last.q][Len(prevLog[last.q])])
          /\ pushLog[last.q] = SubSeq(prevLog[last.q], 1, Len(prevLog[last.q]) - 1)
    /\ Ran("pushEntry") =>
          LET now == getAll(entries, last.q)
          IN /\ now = getAll(prevEntries, last.q) \o <<now[Len(now)]>>
             /\ now[Len(now)].payload = last.arg

\* A pop on X, filled by two pushes, returned the entry pushed second.
QueueLIFOWitness ==
    /\ Ran("popEntry") /\ last.q = "X" /\ pushOnly["X"]
    /\ Len(prevLog["X"]) = 2
    /\ last.ret /= None /\ last.ret[1].id > prevLog["X"][1].id

\* C9: getAll() and size() of a queue name cover exactly the stored entries
\* stamped with that name, and an entry inserted through the facade of one
\* name is stamped with it, whatever name the caller left on the object, so
\* it shows in no other name's getAll() or size().
QueueIsolation ==
    /\ \A n \in QueueNames :
          /\ \A i \in 1..Len(getAll(entries, n)) : getAll(entries, n)[i].queueName = n
          /\ size(entries, n) = Len(getAll(entries, n))
    /\ (Ran("pushEntry") \/ Ran("unshiftEntry")) =>
          /\ Cardinality(NewEntries) = 1
          /\ \A e \in NewEntries :
                /\ e.queueName = last.q
                /\ \E i \in 1..Len(getAll(entries, last.q)) : getAll(entries, last.q)[i] = e
          /\ \A n \in OtherNames(last.q) :
                /\ getAll(entries, n) = getAll(prevEntries, n)
                /\ size(entries, n) = size(prevEntries, n)

\* A head insertion through the facade of X, while X and Y each hold an
\* entry of their own.
QueueIsolationWitness ==
    /\ Ran("unshiftEntry") /\ last.q = "X"
    /\ size(entries, "X") = 2 /\ size(entries, "Y") = 1

\* C10: a facade call in which a store operation fails settles with
\* StorageError, returns no entry and leaves the stored entries as they
\* were; a failed call never changes the store.
QueueFailure ==
    /\ last.outcome = "StorageError" => (entries = prevEntries /\ last.ret = None)
    /\ (last.fault = "read" /\ last.op \in {"unshiftEntry", "popEntry", "shiftEntry"})
          => last.outcome = "StorageError"
    /\ (last.fault = "write" /\ last.op \in {"pushEntry", "unshiftEntry", "deleteEntry"})
          => last.outcome = "StorageError"
    /\ (last.fault = "write" /\ last.op \in {"popEntry", "shiftEntry"}
          /\ InQueue(prevEntries, last.q) /= {})
          => (last.outcome = "StorageError" /\ last.ret = None /\ entries = prevEntries)

\* The delete step of a pop failed on a queue that holds entries.
QueueFailureWitness ==
    /\ last.op = "popEntry" /\ last.fault = "write" /\ last.outcome = "StorageError"
    /\ size(entries, last.q) = 2

\* ------------------------------------------------------------------------
\* Properties of the NetworkFirst strategy, checked under SpecNetworkFirst.
\* ------------------------------------------------------------------------
Settled == pc = "done"
NetworkWon == won = "network"
FellBack == won \in {"failure", "timeout"}
PutPathFailed == NetworkWon /\ caught /= None

\* C4: when the fetch resolves before the timer fires, handleRequest
\* returns the network response and issues at most one cache write; when
\* the timer fires first it goes to the cache lookup, no cache write is
\* issued whatever the fetch does later, and a settled outcome stays.
RaceCorrectness ==
    /\ [](NetworkWon => writes <= 1)
    /\ []((NetworkWon /\ Settled) => outcome = Returned(netRes[1]))
    /\ [](won = "timeout" => (lookups >= 1 /\ writes = 0))
    /\ [][(Settled /\ pc' = "done") => (outcome' = outcome /\ writes' = writes)]_vars

\* C5: whenever the network path won the race, handleRequest returns that
\* network response itself, without the added header, whatever became of
\* validation and of the cache write path.
NetworkResponseReturned ==
    (NetworkWon /\ Settled) => (outcome.kind = "response" /\ outcome.response = netRes)

\* C6 as stated: after a rejected fetch or a timeout, a cache that holds a
\* response for the request makes handleRequest return it, with no error
\* and no cache write.
CacheFallbackHit ==
    (FellBack /\ Settled /\ cacheAtSettle /= None) =>
        (outcome = Returned(cacheAtSettle[1]) /\ writes = 0)

\* C6 as amended: after a rejected fetch or a timeout, with a response for
\* the request in the cache, handleRequest issues no cache write and
\* returns exactly that response, unless opening the cache or the lookup
\* itself failed, in which case it fails with that storage error.
CacheFallbackHitUnlessStorageFails ==
    (FellBack /\ Settled /\ cacheAtSettle /= None) =>
        /\ writes = 0
        /\ outcome = IF storageFault = "none"
                     THEN Returned(cacheAtSettle[1])
                     ELSE Thrown(StorageError)

\* The timer won, the stamped record of an earlier call was served, and the
\* fetch resolved afterwards.
CacheFallbackHitWitness ==
    /\ won = "timeout" /\ Settled /\ cacheAtSettle /= None
    /\ outcome = Returned(cacheAtSettle[1])
    /\ fetchState = "resolved"
    /\ HeadersGet(outcome.response[1].headers, CACHE_TIMESTAMP_HEADER) /= None

PolicyPasses(policy, response) ==
    \/ policy = None
    \/ /\ (policy[1].statuses = {} \/ response.status \in policy[1].statuses)
       /\ (policy[1].headers = {} \/
             \A kv \in policy[1].headers : HeadersGet(response.headers, kv[1]) = Some(kv[2]))

StoredRecords == {cache[r][1] : r \in {x \in Requests : cache[x] /= None}}
                     \cup {p.response : p \in puts}

Removal == last.op \in {"popEntry", "shiftEntry"}
Insertion == last.op \in {"pushEntry", "unshiftEntry"}
WasEmpty == InQueue(prevEntries, last.q) = {}

\* C11 as stated: popEntry and shiftEntry on a queue name without entries
\* return none without error and leave the store as it was, also while
\* other queue names hold entries.
EmptyPop ==
    (Removal /\ WasEmpty) =>
        (last.outcome = "ok" /\ last.ret = None /\ entries = prevEntries)

\* C11 as amended: popEntry and shiftEntry on a queue name without entries
\* leave the store as it was and return none without error, no delete being
\* issued, unless the read of the store itself fails, in which case the call
\* fails with that StorageError.
EmptyPopUnlessReadFails ==
    (Removal /\ WasEmpty) =>
        /\ last.ret = None
        /\ entries = prevEntries /\ pushLog = prevLog
        /\ last.outcome = IF last.fault = "read" THEN "StorageError" ELSE "ok"

\* A pop on the empty queue X returned none while Y holds two entries and a
\* delete, had one been issued, would have failed.
EmptyPopWitness ==
    /\ Ran("popEntry") /\ last.q = "X" /\ WasEmpty /\ last.fault = "write"
    /\ last.ret = None
    /\ size(entries, "Y") = 2

\* C12: whenever the store holds an entry, of any queue name, the id that
\* unshiftEntry assigns is below every id stored.
HeadInsertionIds ==
    (Ran("unshiftEntry") /\ prevEntries /= {}) =>
        \A e \in NewEntries : \A o \in prevEntries : e.id < o.id

\* C13: no two stored entries share an id, and pushEntry and unshiftEntry
\* never hand addEntry an id that is stored already.
IdUniqueness ==
    /\ \A e1 \in entries : \A e2 \in entries : e1.id = e2.id => e1 = e2
    /\ (Insertion /\ last.fault = "none") =>
          /\ last.outcome = "ok"
          /\ Cardinality(NewEntries) = 1
          /\ \A e \in NewEntries : e.id \notin IdsOf(prevEntries)

\* An unshift on Y stored an entry under id 0 next to entries of X and Y.
IdUniquenessWitness ==
    /\ Ran("unshiftEntry") /\ last.q = "Y"
    /\ Cardinality(entries) = 3
    /\ \E e \in NewEntries : e.id = 0
    /\ InQueue(prevEntries, "X") /= {} /\ InQueue(prevEntries, "Y") /= {}

\* C16 as stated: deleteEntry(id) through any facade removes exactly the
\* entry stored under that id, of whatever queue, and nothing else; without
\* such an entry it changes nothing and raises no error.
DeleteExact ==
    last.op = "deleteEntry" =>
        /\ entries = {e \in prevEntries : e.id /= last.id}
        /\ last.id \notin IdsOf(prevEntries) =>
              (last.outcome = "ok" /\ entries = prevEntries)

\* C16 as amended: deleteEntry(id) through any facade removes exactly the
\* entry stored under that id, of whatever queue, and nothing else, and
\* without such an entry changes nothing and raises no error, unless the
\* delete of the store itself fails: the call then fails with that
\* StorageError and the store is as it was.
DeleteExactUnlessDeleteFails ==
    last.op = "deleteEntry" =>
        IF last.fault = "write"
        THEN last.outcome = "StorageError" /\ entries = prevEntries
        ELSE /\ last.outcome = "ok"
             /\ entries = {e \in prevEntries : e.id /= last.id}
             /\ \A n \in QueueNames :
                   getAll(entries, n) =
                       SelectSeq(getAll(prevEntries, n), LAMBDA e : e.id /= last.id)

\* deleteEntry through the facade of X removed an entry of queue Y and left
\* the other two entries.
DeleteExactWitness ==
    /\ Ran("deleteEntry") /\ last.q = "X"
    /\ \E e \in prevEntries : e.id = last.id /\ e.queueName = "Y"
    /\ Cardinality(prevEntries) = 3 /\ Cardinality(entries) = 2

\* C17: popEntry and shiftEntry on X remove at most one entry, an entry of
\* X, and leave getAll() of every other queue name as it was; pushEntry and
\* unshiftEntry keep every stored entry, unchanged and in the same order.
RemovalFrame ==
    /\ Removal =>
          /\ entries \subseteq prevEntries
          /\ Cardinality(prevEntries \ entries) <= 1
          /\ \A e \in prevEntries \ entries : e.queueName = last.q /\ last.ret = Some(e)
          /\ \A n \in OtherNames(last.q) : getAll(entries, n) = getAll(prevEntries, n)
    /\ Insertion =>
          /\ prevEntries \subseteq entries
          /\ \A n \in QueueNames :
                getAll(prevEntries, n) =
                    SelectSeq(getAll(entries, n), LAMBDA e : e \in prevEntries)

\* A shift on X removed its first entry while Y holds an entry with a
\* smaller id.
RemovalFrameWitness ==
    /\ Ran("shiftEntry") /\ last.q = "X" /\ last.ret /= None
    /\ \E o \in InQueue(entries, "Y") : o.id < last.ret[1].id
    /\ size(entries, "X") = 1

\* ------------------------------------------------------------------------
\* Properties of interleaved facade calls, checked under SpecQueueInterleaved.
\* ------------------------------------------------------------------------
Finished(c, op) == proc[c].pc = "ready" /\ proc[c].op = op

\* C14: two unshiftEntry calls that interleave between the read of the
\* smallest id and addEntry can read the same minimum and then both hand
\* addEntry the id one below it. Whenever two calls hold the same minimum
\* they are about to add the same id, and addEntry rejects an unshiftEntry
\* only for such an id, one below the minimum the call had read.
UnshiftRace ==
    /\ \A c \in Callers : \A d \in Callers \ {c} :
          (/\ proc[c].pc = "unshiftAdd" /\ proc[d].pc = "unshiftAdd"
           /\ proc[c].firstId = proc[d].firstId /\ Truthy(proc[c].firstId)) =>
              /\ unshiftEntryObject(proc[c].q, proc[c].entry, proc[c].firstId).id
                    = Some(proc[c].firstId[1] - 1)
              /\ unshiftEntryObject(proc[d].q, proc[d].entry, proc[d].firstId).id
                    = Some(proc[c].firstId[1] - 1)
    /\ \A c \in Callers :
          (Finished(c, "unshiftEntry") /\ proc[c].outcome = "StorageError") =>
              /\ Truthy(proc[c].firstId)
              /\ proc[c].attempt = Some(proc[c].firstId[1] - 1)

\* Both callers read the same minimum and both called addEntry with the id
\* below it, on different queue names: one stored its entry, the other was
\* rejected.
UnshiftRaceWitness ==
    /\ Finished("c1", "unshiftEntry") /\ Finished("c2", "unshiftEntry")
    /\ proc["c1"].q /= proc["c2"].q
    /\ proc["c1"].firstId = proc["c2"].firstId /\ Truthy(proc["c1"].firstId)
    /\ proc["c1"].attempt = proc["c2"].attempt
    /\ proc["c1"].attempt = Some(proc["c1"].firstId[1] - 1)
    /\ proc["c1"].outcome = "ok" /\ proc["c2"].outcome = "StorageError"

\* C15 as stated: whatever the interleaving of popEntry and shiftEntry
\* calls, a stored entry is returned to at most one caller.
NoDuplicateDelivery ==
    \A e \in BagToSet(delivered) : CopiesIn(e, delivered) <= CopiesIn(e, inserted)

\* C15 as amended: interleaved popEntry and shiftEntry calls can return the
\* same entry to more than one caller, but every returned entry had been
\* stored, and a stored entry is returned by at most one call that finds it
\* still stored when it deletes it; the delete of any other call returning
\* it removes nothing.
DeliveryOncePerDelete ==
    /\ \A e \in BagToSet(delivered) :
          /\ CopiesIn(e, inserted) >= 1
          /\ CopiesIn(e, removedBy) <= CopiesIn(e, inserted)
          /\ CopiesIn(e, removedBy) <= CopiesIn(e, delivered)
    /\ \A c \in Callers : proc[c].pc = "delete" => proc[c].held /= None

\* Both callers returned the one entry pushed on X: one delete removed it,
\* the other found it gone.
DeliveryOncePerDeleteWitness ==
    /\ Finished("c1", "shiftEntry") /\ Finished("c2", "popEntry")
    /\ proc["c1"].ret /= None /\ proc["c1"].ret = proc["c2"].ret
    /\ CopiesIn(proc["c1"].ret[1], inserted) = 1
    /\ CopiesIn(proc["c1"].ret[1], delivered) = 2
    /\ CopiesIn(proc["c1"].ret[1], removedBy) = 1

\* ------------------------------------------------------------------------
\* Further properties of the NetworkFirst strategy.
\* ------------------------------------------------------------------------
InFlight == pc \in {"race", "putOpen", "catchOpen", "match"}
FiniteTimeout == networkTimeoutSeconds /= Infinity

\* C18: with a finite timeout every handleRequest call settles, with a
\* response or with one error, also when the fetch never settles, as long as
\* the timer and the cache operations complete (SpecNetworkFirstFair).
BoundedResponse ==
    /\ (FiniteTimeout /\ InFlight) ~> (Settled /\ outcome.kind \in {"response", "error"})
    /\ [](won = "timeout" => /\ caught = Some(TimeoutError)
                             /\ pc \in {"catchOpen", "match", "done"})

\* The timer turned a fetch that is still pending into the cache fallback,
\* and the call has settled.
BoundedResponseWitness ==
    /\ FiniteTimeout /\ Settled /\ won = "timeout" /\ fetchState = "pending"
    /\ lookups = 1
    /\ outcome.kind \in {"response", "error"}

\* C19: with networkTimeoutInSeconds Infinity no timer is started, the call
\* never falls back because of a timeout, it reaches the cache fallback only
\* when the fetch itself rejected, and it stays pending while the fetch is.
InfiniteTimeout ==
    (networkTimeoutSeconds = Infinity) =>
        /\ timer = "off"
        /\ won /= "timeout"
        /\ lookups >= 1 => fetchState = "rejected"
        /\ (calls >= 1 /\ fetchState = "pending") => pc = "race"

IsDigit(ch) == \E i \in 1..Len(Digits) : Digits[i] = ch
DigitValue(ch) == (CHOOSE i \in 1..Len(Digits) : Digits[i] = ch) - 1
IsDecimalString(str) == Len(str) >= 1 /\ \A i \in 1..Len(str) : IsDigit(str[i])

RECURSIVE StringToNumber(_)
StringToNumber(str) ==
    IF Len(str) = 1 THEN DigitValue(str[1])
    ELSE 10 * StringToNumber(SubSeq(str, 1, Len(str) - 1)) + DigitValue(str[Len(str)])

\* C20: the response handed to cache.put is a copy of the network response
\* with the timestamp header added, whose value reads as one integer not
\* earlier than the time putInCache began; the response returned on the
\* network path is the original, with the headers it arrived with.
TimestampAnnotation ==
    /\ stamping.written /= None =>
          LET copy == stamping.written[1]
              value == HeadersGet(copy.headers, CACHE_TIMESTAMP_HEADER)
          IN /\ copy.status = netRes[1].status /\ copy.body = netRes[1].body
             /\ copy.headers[HeaderKind] = netRes[1].headers[HeaderKind]
             /\ value /= None
             /\ IsDecimalString(value[1])
             /\ StringToNumber(value[1]) >= stamping.began
    /\ (Settled /\ NetworkWon /\ outcome.kind = "response" /\ caught = None) =>
          outcome.response = netRes

====
